---- MODULE Spec2Model ----
(***************************************************************************)
(* Model of src/pcap/udp.rs: the Udp layer (header model, parse,           *)
(* get_size, serialize, serialize_n) on top of pnet's generated UdpPacket  *)
(* / MutableUdpPacket accessors and pnet's pseudo-header checksum.         *)
(*                                                                         *)
(* A byte buffer is a sequence of naturals below 256 (index 1 is offset 0).*)
(* A call that panics (slice index out of range inside populate) is the    *)
(* outcome kind "panic"; it ends the run of the caller.                    *)
(***************************************************************************)
EXTENDS Naturals, Integers, Sequences, FiniteSets, TLC

VARIABLES hdr, origin, raw, buf, pre, out, calls, pc

vars == <<hdr, origin, raw, buf, pre, out, calls, pc>>

(* ---------------------------- bounds ----------------------------------- *)
MaxBufLen == 11
MaxPayload == 2
MaxTrail == 1
MaxFill == 1
MaxCalls == 2

(* ------------------------- program constants --------------------------- *)
\* UdpPacket::minimum_packet_size(): the four u16be fields
HeaderSize == 8
\* IpNextHeaderProtocols::Udp
ProtoUdp == 17
\* the checksum word index handed to the pseudo-header checksum
SkipWord == 3
\* 2^16: range of u16 (the "as u16" cast, the u16be fields)
U16 == 65536

(* --------------------------- input sets -------------------------------- *)
Fill(k, i) == (k * (170 + i)) % 256

FillSeq(k, len) == [i \in 1..len |-> Fill(k, i)]

SourceVals == {53, 65535}
DestinationVals == {80}
LengthVals == {8, 65535}
ChecksumVals == {0, 43981}
PayloadVals == {[i \in 1..len |-> i] : len \in 0..MaxPayload}
NVals == {0, 65527, 65528}

V4(a, b, c, d) == [fam |-> "V4", octets |-> <<a, b, c, d>>]
V6(last) == [fam |-> "V6",
             octets |-> <<254, 128, 0, 0, 0, 0, 0, 0, 0, 0, 0, 0, 0, 0, 1, last>>]

SrcAddrs == {V4(192, 168, 0, 1), V6(1)}
DstAddrs == {V4(10, 0, 0, 255), V6(2)}

RawHeads == {<<0, 53, 0, 80, 0, 8, 171, 205>>,
             <<255, 255, 0, 0, 255, 255, 0, 0>>,
             <<1, 2, 3, 4, 5, 6, 7, 8>>}
RawViews == {h \o FillSeq(1, t) : h \in RawHeads, t \in 0..MaxTrail}

Buffers == {FillSeq(k, len) : k \in 0..MaxFill, len \in 0..MaxBufLen}

(* ------------------------ byte-level accessors ------------------------- *)
Min(a, b) == IF a < b THEN a ELSE b

\* u16be getter of the generated packet types: big-endian word at a byte offset
get_u16(packet, off) == packet[off + 1] * 256 + packet[off + 2]

\* u16be setter of the generated packet types
set_u16(packet, off, val) ==
    [packet EXCEPT ![off + 1] = (val \div 256) % 256, ![off + 2] = val % 256]

get_source(packet) == get_u16(packet, 0)
get_destination(packet) == get_u16(packet, 2)
get_length(packet) == get_u16(packet, 4)
get_checksum(packet) == get_u16(packet, 6)

set_source(packet, val) == set_u16(packet, 0, val)
set_destination(packet, val) == set_u16(packet, 2, val)
set_length(packet, val) == set_u16(packet, 4, val)

\* variant: the checksum written one word too far, into the payload area
set_checksum_wrong_offset(packet, val) ==
    IF Len(packet) >= 10 THEN set_u16(packet, 8, val) ELSE packet

set_checksum(packet, val) == set_u16(packet, 6, val)

\* variant: off by one, a buffer of exactly one header is refused
MutableUdpPacket_new_strict(buffer) == Len(buffer) > HeaderSize

\* MutableUdpPacket::new(buffer): Some iff the buffer holds a whole header
MutableUdpPacket_new(buffer) == Len(buffer) >= HeaderSize

\* MutablePacket::populate(&self.layer): the four fields, then the payload
\* copied to offset 8; the copy indexes packet[8 .. 8 + payload.len()] and
\* panics, before copying anything, when the buffer is shorter than that.
populate(packet, layer) ==
    LET p1 == set_source(packet, layer.source)
        p2 == set_destination(p1, layer.destination)
        p3 == set_length(p2, layer.length)
        p4 == set_checksum(p3, layer.checksum)
        plen == Len(layer.payload)
    IN  IF HeaderSize + plen > Len(packet)
        THEN [packet |-> p4, panicked |-> TRUE]
        ELSE [packet |-> [i \in 1..Len(packet) |->
                             IF i > HeaderSize /\ i <= HeaderSize + plen
                             THEN layer.payload[i - HeaderSize]
                             ELSE p4[i]],
              panicked |-> FALSE]

(* ----------------------------- checksum -------------------------------- *)
RECURSIVE word_sum(_, _, _)
\* sum of the big-endian words i .. nw-1 of data, the word sk left out
word_sum(data, i, sk) ==
    IF i >= Len(data) \div 2 THEN 0
    ELSE (IF i = sk THEN 0 ELSE get_u16(data, 2 * i)) + word_sum(data, i + 1, sk)

\* variant: no word is skipped, the placeholder checksum is summed too
sum_be_words_no_skip(data, skipword) ==
    LET len == Len(data)
        odd == IF len % 2 # 0 THEN data[len] * 256 ELSE 0
    IN  word_sum(data, 0, len) + odd

\* util::sum_be_words(data, skipword).  The accumulator is a u32: it cannot
\* wrap below 65537 words of data, far above the buffers modelled here.
sum_be_words(data, skipword) ==
    LET len == Len(data)
        sk == Min(skipword, len \div 2)
        odd == IF len % 2 # 0 THEN data[len] * 256 ELSE 0
    IN  word_sum(data, 0, sk) + odd

RECURSIVE finalize_checksum(_)
\* util::finalize_checksum(sum): fold the carries, complement, keep 16 bits
finalize_checksum(sum) ==
    IF sum \div U16 # 0 THEN finalize_checksum((sum \div U16) + (sum % U16))
    ELSE (U16 - 1) - sum

ipv4_word_sum(ip) ==
    (ip.octets[1] * 256 + ip.octets[2]) + (ip.octets[3] * 256 + ip.octets[4])

RECURSIVE segment_sum(_, _)
segment_sum(octets, j) ==
    IF j > Len(octets) \div 2 THEN 0
    ELSE get_u16(octets, 2 * (j - 1)) + segment_sum(octets, j + 1)

ipv6_word_sum(ip) == segment_sum(ip.octets, 1)

\* variant: the pseudo-header length taken from the header's length field
ipv4_checksum_length_field(packet, source, destination) ==
    finalize_checksum(ipv4_word_sum(source) + ipv4_word_sum(destination)
                      + ProtoUdp + get_length(packet)
                      + sum_be_words(packet, SkipWord))

\* udp::ipv4_checksum(&packet.to_immutable(), &src, &dst): the pseudo-header
\* (addresses, protocol, data.len()) and then every byte of the packet's
\* underlying buffer, the checksum word skipped
ipv4_checksum(packet, source, destination) ==
    finalize_checksum(ipv4_word_sum(source) + ipv4_word_sum(destination)
                      + ProtoUdp + Len(packet)
                      + sum_be_words(packet, SkipWord))

\* udp::ipv6_checksum(&packet.to_immutable(), &src, &dst)
ipv6_checksum(packet, source, destination) ==
    finalize_checksum(ipv6_word_sum(source) + ipv6_word_sum(destination)
                      + ProtoUdp + Len(packet)
                      + sum_be_words(packet, SkipWord))

(* --------------------------- the Udp layer ----------------------------- *)
\* Udp::new
new(udp, src, dst) == [layer |-> udp, src |-> src, dst |-> dst]

\* variant: the bytes after the header kept as the payload
parse_keep_payload(packet, src, dst) ==
    [layer |-> [source |-> get_source(packet),
                destination |-> get_destination(packet),
                length |-> get_length(packet),
                checksum |-> get_checksum(packet),
                payload |-> SubSeq(packet, HeaderSize + 1, Len(packet))],
     src |-> src,
     dst |-> dst]

\* Udp::parse
parse(packet, src, dst) ==
    [layer |-> [source |-> get_source(packet),
                destination |-> get_destination(packet),
                length |-> get_length(packet),
                checksum |-> get_checksum(packet),
                payload |-> <<>>],
     src |-> src,
     dst |-> dst]

\* variant: the header alone, whatever the layer's payload
get_size_header_only(self) == HeaderSize

\* Udp::get_size: UdpPacket::packet_size(&self.layer), the size of the
\* instance as a byte array (header and the layer's own payload)
get_size(self) == HeaderSize + Len(self.layer.payload)

Result(packet, kind, val) == [buf |-> packet, kind |-> kind, val |-> val]

\* variant: the checksum computed over the buffer as found, before populate
serialize_checksum_first(self, buffer) ==
    IF ~MutableUdpPacket_new(buffer) THEN Result(buffer, "too_small", 0)
    ELSE LET p == populate(buffer, self.layer) IN
         IF p.panicked THEN Result(p.packet, "panic", 0)
         ELSE IF self.src.fam # self.dst.fam THEN Result(p.packet, "mismatch", 0)
         ELSE IF self.src.fam = "V4"
              THEN Result(set_checksum(p.packet,
                              ipv4_checksum(buffer, self.src, self.dst)), "ok", 0)
              ELSE Result(set_checksum(p.packet,
                              ipv6_checksum(buffer, self.src, self.dst)), "ok", 0)

\* variant: the address families compared before the buffer is looked at
serialize_family_first(self, buffer) ==
    IF self.src.fam # self.dst.fam THEN Result(buffer, "mismatch", 0)
    ELSE IF ~MutableUdpPacket_new(buffer) THEN Result(buffer, "too_small", 0)
    ELSE LET p == populate(buffer, self.layer) IN
         IF p.panicked THEN Result(p.packet, "panic", 0)
         ELSE IF self.src.fam = "V4"
              THEN Result(set_checksum(p.packet,
                              ipv4_checksum(p.packet, self.src, self.dst)), "ok", 0)
              ELSE Result(set_checksum(p.packet,
                              ipv6_checksum(p.packet, self.src, self.dst)), "ok", 0)

\* Udp::serialize
serialize(self, buffer) ==
    IF ~MutableUdpPacket_new(buffer) THEN Result(buffer, "too_small", 0)
    ELSE LET p == populate(buffer, self.layer) IN
         IF p.panicked THEN Result(p.packet, "panic", 0)
         ELSE IF self.src.fam = "V4"
              THEN IF self.dst.fam = "V4"
                   THEN Result(set_checksum(p.packet,
                                   ipv4_checksum(p.packet, self.src, self.dst)),
                               "ok", 0)
                   ELSE Result(p.packet, "mismatch", 0)
              ELSE IF self.dst.fam = "V6"
                   THEN Result(set_checksum(p.packet,
                                   ipv6_checksum(p.packet, self.src, self.dst)),
                               "ok", 0)
                   ELSE Result(p.packet, "mismatch", 0)

\* variant: the length field left as populated, not recalculated
serialize_n_keep_length(self, n, buffer) ==
    LET r == serialize(self, buffer) IN
        Result(r.buf, r.kind, IF r.kind = "ok" THEN get_size(self) + n ELSE 0)

\* Udp::serialize_n
serialize_n(self, n, buffer) ==
    IF ~MutableUdpPacket_new(buffer) THEN Result(buffer, "too_small", 0)
    ELSE LET p == populate(buffer, self.layer) IN
         IF p.panicked THEN Result(p.packet, "panic", 0)
         ELSE LET q == set_length(p.packet, (get_size(self) + n) % U16) IN
              IF self.src.fam = "V4"
              THEN IF self.dst.fam = "V4"
                   THEN Result(set_checksum(q, ipv4_checksum(q, self.src, self.dst)),
                               "ok", get_size(self) + n)
                   ELSE Result(q, "mismatch", 0)
              ELSE IF self.dst.fam = "V6"
                   THEN Result(set_checksum(q, ipv6_checksum(q, self.src, self.dst)),
                               "ok", get_size(self) + n)
                   ELSE Result(q, "mismatch", 0)

(* ---------------------------- the caller ------------------------------- *)
NoHdr == new([source |-> 0, destination |-> 0, length |-> 0, checksum |-> 0,
              payload |-> <<>>], V4(0, 0, 0, 0), V4(0, 0, 0, 0))

NoOut == [op |-> "none", kind |-> "none", val |-> 0, n |-> 0]

Init ==
    /\ hdr = NoHdr
    /\ origin = "none"
    /\ raw = <<>>
    /\ buf = <<>>
    /\ pre = <<>>
    /\ out = NoOut
    /\ calls = 0
    /\ pc = "start"

\* the caller builds a header from field values
New ==
    /\ pc = "start"
    /\ \E s \in SourceVals, d \in DestinationVals, l \in LengthVals,
          c \in ChecksumVals, p \in PayloadVals, sa \in SrcAddrs, da \in DstAddrs :
          hdr' = new([source |-> s, destination |-> d, length |-> l,
                      checksum |-> c, payload |-> p], sa, da)
    /\ origin' = "new"
    /\ pc' = "built"
    /\ UNCHANGED <<raw, buf, pre, out, calls>>

\* the caller parses a header from a captured datagram
Parse ==
    /\ pc = "start"
    /\ \E r \in RawViews, sa \in SrcAddrs, da \in DstAddrs :
          /\ raw' = r
          /\ hdr' = parse(r, sa, da)
    /\ origin' = "parse"
    /\ pc' = "built"
    /\ UNCHANGED <<buf, pre, out, calls>>

\* the caller supplies the destination buffer
Alloc ==
    /\ pc = "built"
    /\ \E b \in Buffers : buf' = b /\ pre' = b
    /\ pc' = "ready"
    /\ UNCHANGED <<hdr, origin, raw, out, calls>>

GetSize ==
    /\ pc = "ready"
    /\ calls < MaxCalls
    /\ out' = [op |-> "get_size", kind |-> "ok", val |-> get_size(hdr), n |-> 0]
    /\ pre' = buf
    /\ calls' = calls + 1
    /\ UNCHANGED <<hdr, origin, raw, buf, pc>>

Serialize ==
    /\ pc = "ready"
    /\ calls < MaxCalls
    /\ LET r == serialize(hdr, buf) IN
          /\ buf' = r.buf
          /\ out' = [op |-> "serialize", kind |-> r.kind, val |-> r.val, n |-> 0]
          /\ pc' = IF r.kind = "panic" THEN "panicked" ELSE "ready"
    /\ pre' = buf
    /\ calls' = calls + 1
    /\ UNCHANGED <<hdr, origin, raw>>

SerializeN ==
    /\ pc = "ready"
    /\ calls < MaxCalls
    /\ \E n \in NVals :
          LET r == serialize_n(hdr, n, buf) IN
             /\ buf' = r.buf
             /\ out' = [op |-> "serialize_n", kind |-> r.kind, val |-> r.val, n |-> n]
             /\ pc' = IF r.kind = "panic" THEN "panicked" ELSE "ready"
    /\ pre' = buf
    /\ calls' = calls + 1
    /\ UNCHANGED <<hdr, origin, raw>>

Next == New \/ Parse \/ Alloc \/ GetSize \/ Serialize \/ SerializeN

Spec == Init /\ [][Next]_vars

(* ------------------- reference checksum (RFC 1071) --------------------- *)
\* The pseudo-header as bytes: addresses, zero, protocol, 16-bit length for
\* V4; addresses, 32-bit length, three zeros, next header for V6.
PseudoHeader(src, dst, len) ==
    IF src.fam = "V4"
    THEN src.octets \o dst.octets
         \o <<0, ProtoUdp, (len \div 256) % 256, len % 256>>
    ELSE src.octets \o dst.octets
         \o <<0, 0, (len \div 256) % 256, len % 256, 0, 0, 0, ProtoUdp>>

\* the datagram bytes with the checksum field counted as zero
ZeroChecksum(bytes) ==
    [i \in 1..Len(bytes) |-> IF i \in {7, 8} THEN 0 ELSE bytes[i]]

RECURSIVE RefWords(_, _)
RefWords(bytes, i) ==
    IF i > Len(bytes) THEN 0
    ELSE bytes[i] * 256 + (IF i + 1 <= Len(bytes) THEN bytes[i + 1] ELSE 0)
         + RefWords(bytes, i + 2)

\* one's-complement of the one's-complement sum, by arithmetic modulo 2^16 - 1
RefChecksum(bytes) ==
    LET s == RefWords(bytes, 1)
        r == s % 65535
        folded == IF s = 0 THEN 0 ELSE IF r = 0 THEN 65535 ELSE r
    IN  65535 - folded

\* the eight header bytes a header's fields stand for, checksum zero
HeaderBytes(layer) ==
    <<(layer.source \div 256) % 256, layer.source % 256,
      (layer.destination \div 256) % 256, layer.destination % 256,
      (layer.length \div 256) % 256, layer.length % 256, 0, 0>>

SameFamily == hdr.src.fam = hdr.dst.fam
PayloadLen == Len(hdr.layer.payload)

\* the buffer `b` with its first `len` bytes replaced by the fill pattern k
OverwriteHead(b, len, k) ==
    [i \in 1..Len(b) |-> IF i <= len THEN Fill(k + 1, i) ELSE b[i]]

(* ------------------------------- C1 ------------------------------------ *)
\* C1: get_size returns exactly 8 for every header, whatever its payload.
C1_WireSizeAlways8 ==
    out.op = "get_size" => out.val = 8

\* C1 (amended): get_size returns 8 plus the length of the model's payload;
\* it is 8 for every parsed header and for every header with an empty
\* payload, and it is the shortest buffer serialize accepts without a
\* too-small failure or a panic.
C1_GetSizeIsHeaderPlusPayload ==
    out.op = "get_size" =>
        /\ out.val = 8 + PayloadLen
        /\ (origin = "parse" => out.val = 8)
        /\ serialize(hdr, FillSeq(0, out.val)).kind \in {"ok", "mismatch"}
        /\ serialize(hdr, FillSeq(0, out.val - 1)).kind \in {"too_small", "panic"}

C1_Witness ==
    out.op = "get_size" /\ PayloadLen = 2 /\ out.val = 10

(* ------------------------------- C2 ------------------------------------ *)
\* C2: the checksum serialize writes is a function of the ports, the length
\* field and the addresses only, whatever the buffer's length and contents,
\* and equals the checksum over the pseudo-header (addresses, 17, UDP
\* length) followed by the 8 header bytes.
C2_ChecksumOfFiveInputsOnly ==
    (out.op = "serialize" /\ out.kind = "ok") =>
        get_checksum(buf) =
            RefChecksum(PseudoHeader(hdr.src, hdr.dst, hdr.layer.length)
                        \o HeaderBytes(hdr.layer))

\* C2 (amended): the checksum a successful serialize writes is the
\* one's-complement checksum over the pseudo-header (addresses, 17, the
\* length of the destination buffer) followed by every byte of the buffer as
\* the call leaves it, the checksum field counted as zero; it is the same
\* whatever the buffer held in the bytes the call overwrites.
C2_ChecksumCoversWholeBuffer ==
    (out.op = "serialize" /\ out.kind = "ok") =>
        /\ get_checksum(buf) =
               RefChecksum(PseudoHeader(hdr.src, hdr.dst, Len(buf))
                           \o ZeroChecksum(buf))
        /\ \A k \in 0..MaxFill :
               get_checksum(serialize(hdr,
                   OverwriteHead(pre, 8 + PayloadLen, k)).buf) = get_checksum(buf)

C2_Witness ==
    /\ out.op = "serialize" /\ out.kind = "ok"
    /\ Len(buf) > 8 + PayloadLen
    /\ buf[Len(buf)] # 0
    /\ hdr.layer.length # Len(buf)
    /\ hdr.src.fam = "V4"

IsSerialize == out.op \in {"serialize", "serialize_n"}

\* the call the last action made, applied to header h and buffer b
Again(h, b) ==
    IF out.op = "serialize" THEN serialize(h, b) ELSE serialize_n(h, out.n, b)

WithChecksum(h, c) == [h EXCEPT !.layer.checksum = c]

(* ------------------------------- C3 ------------------------------------ *)
\* C3: for same-family addresses, a buffer of at least 8 bytes and every n,
\* serialize_n writes 8 + n into the length field and returns success with
\* 8 + n, also beyond 65535 and with a non-empty payload.
C3_LengthIs8PlusN ==
    (out.op = "serialize_n" /\ SameFamily /\ Len(pre) >= 8) =>
        /\ out.kind = "ok"
        /\ out.val = 8 + out.n
        /\ get_length(buf) = 8 + out.n

\* C3 (amended): for same-family addresses and a buffer of at least
\* 8 + payload-length bytes, serialize_n returns success with
\* 8 + payload-length + n and writes that value modulo 65536, big-endian,
\* at offset 4..6; every success of serialize_n returns and writes these.
C3_LengthIsSizePlusNTruncated ==
    (out.op = "serialize_n") =>
        /\ (SameFamily /\ Len(pre) >= 8 + PayloadLen) => out.kind = "ok"
        /\ out.kind = "ok" =>
              /\ out.val = 8 + PayloadLen + out.n
              /\ buf[5] * 256 + buf[6] = (8 + PayloadLen + out.n) % 65536

C3_Witness ==
    /\ out.op = "serialize_n" /\ out.kind = "ok"
    /\ out.n = 65528 /\ PayloadLen = 1
    /\ out.val = 65537 /\ buf[5] = 0 /\ buf[6] = 1

(* ------------------------------- C4 ------------------------------------ *)
\* C4: with addresses of different families and a buffer of at least 8
\* bytes, serialize and serialize_n return the address-family-mismatch
\* failure, never success.
C4_MismatchAlwaysReported ==
    (IsSerialize /\ ~SameFamily /\ Len(pre) >= 8) => out.kind = "mismatch"

(* ------------------------------- C5 ------------------------------------ *)
\* C5: serialize returns the buffer-too-small failure for every buffer
\* shorter than 8 bytes (the empty one included) and does not return it for
\* a buffer of at least wire_size bytes.
C5_TooSmallIffShorterThanHeader ==
    (out.op = "serialize") =>
        /\ Len(pre) < 8 => (out.kind = "too_small")
        /\ Len(pre) >= 8 => (out.kind # "too_small")
        /\ (SameFamily /\ Len(pre) >= get_size(hdr)) => (out.kind = "ok")

C5_Witness ==
    out.op = "serialize" /\ Len(pre) = 0 /\ out.kind = "too_small"

(* ------------------------------- C6 ------------------------------------ *)
\* C6: parse followed by serialize (same-family addresses, buffer of at
\* least 8 bytes) writes the raw view's source port, destination port and
\* length at offsets 0..6, the parsed payload is empty and nothing of the
\* raw view's trailing bytes is written, and the checksum written is the
\* recomputed one: it is the same whatever the raw checksum bytes were.
C6_RoundTrip ==
    (origin = "parse" /\ out.op = "serialize" /\ SameFamily /\ Len(pre) >= 8) =>
        /\ out.kind = "ok"
        /\ SubSeq(buf, 1, 6) = SubSeq(raw, 1, 6)
        /\ hdr.layer.payload = <<>>
        /\ SubSeq(buf, 9, Len(buf)) = SubSeq(pre, 9, Len(pre))
        /\ get_checksum(buf) =
               RefChecksum(PseudoHeader(hdr.src, hdr.dst, Len(buf))
                           \o ZeroChecksum(buf))
        /\ \A c \in ChecksumVals :
               serialize(parse(set_checksum(raw, c), hdr.src, hdr.dst), pre).buf = buf

C6_Witness ==
    /\ origin = "parse" /\ out.op = "serialize" /\ out.kind = "ok"
    /\ Len(raw) > 8
    /\ SubSeq(buf, 1, 6) = SubSeq(raw, 1, 6)
    /\ SubSeq(buf, 7, 8) # SubSeq(raw, 7, 8)

(* ------------------------------- C7 ------------------------------------ *)
\* C7: a successful serialize changes no buffer byte at offset 8 or beyond.
C7_NothingWrittenBeyondHeader ==
    (out.op = "serialize" /\ out.kind = "ok") =>
        /\ Len(buf) = Len(pre)
        /\ \A i \in 9..Len(buf) : buf[i] = pre[i]

\* C7 (amended): a successful serialize writes the header at offsets 0..8
\* and the model's payload right after it; every buffer byte at offset
\* 8 + payload-length or beyond has the same value after the call as before.
C7_NothingWrittenBeyondSize ==
    (out.op = "serialize" /\ out.kind = "ok") =>
        /\ Len(buf) = Len(pre)
        /\ \A i \in (9 + PayloadLen)..Len(buf) : buf[i] = pre[i]
        /\ \A i \in 1..PayloadLen : buf[8 + i] = hdr.layer.payload[i]

C7_Witness ==
    /\ out.op = "serialize" /\ out.kind = "ok"
    /\ PayloadLen = 2 /\ Len(buf) > 10
    /\ buf[9] # pre[9]
    /\ buf[11] = pre[11] /\ pre[11] # 0

(* ------------------------------- C8 ------------------------------------ *)
\* C8: two headers that differ only in their checksum field, serialized (or
\* serialize_n with the same n) into equal buffers, give byte-for-byte equal
\* buffers and equal outcomes.
C8_ModelChecksumNeverVisible ==
    (IsSerialize /\ out.kind # "panic") =>
        \A c \in ChecksumVals :
            Again(WithChecksum(hdr, c), pre) = Result(buf, out.kind, out.val)

\* C8 (amended): two headers that differ only in their checksum field give
\* equal outcomes, and byte-for-byte equal buffers whenever the call
\* succeeds or fails with buffer-too-small; after an address-family-mismatch
\* failure the buffers agree everywhere except at offset 6..8, which holds
\* each model's own checksum field.
C8_ModelChecksumOverwrittenOnSuccess ==
    (IsSerialize /\ out.kind # "panic") =>
        \A c \in ChecksumVals :
            LET r == Again(WithChecksum(hdr, c), pre) IN
                /\ r.kind = out.kind /\ r.val = out.val
                /\ out.kind \in {"ok", "too_small"} => r.buf = buf
                /\ out.kind = "mismatch" =>
                      /\ r.buf = set_u16(buf, 6, c)
                      /\ buf[7] * 256 + buf[8] = hdr.layer.checksum

C8_Witness ==
    /\ out.op = "serialize" /\ out.kind = "ok"
    /\ hdr.layer.checksum = 43981
    /\ buf[7] * 256 + buf[8] # 43981
    /\ serialize(WithChecksum(hdr, 0), pre).buf = buf

(* ------------------------------- C9 ------------------------------------ *)
\* C9: serialize and serialize_n are idempotent on the buffer: the same call
\* made again on the buffer the first call left yields the same outcome and
\* leaves the buffer byte-for-byte as it was.
C9_Idempotent ==
    (IsSerialize /\ out.kind # "panic") =>
        Again(hdr, buf) = Result(buf, out.kind, out.val)

C9_Witness ==
    /\ out.op = "serialize" /\ out.kind = "ok" /\ calls = 2
    /\ buf = pre
    /\ buf[7] * 256 + buf[8] # hdr.layer.checksum
    /\ Len(buf) > 8

(* ------------------------------- C10 ----------------------------------- *)
\* C10: a call that returns a failure leaves every byte of the destination
\* buffer as it was; a buffer shorter than 8 bytes with mismatched addresses
\* reports buffer-too-small.
C10_FailureLeavesBufferUntouched ==
    (IsSerialize /\ out.kind \in {"too_small", "mismatch"}) =>
        /\ buf = pre
        /\ (Len(pre) < 8 /\ ~SameFamily) => out.kind = "too_small"

\* C10 (amended): a buffer-too-small failure leaves every byte of the buffer
\* as it was, and it is the failure reported whenever the buffer is shorter
\* than 8 bytes, mismatched addresses or not.  An address-family-mismatch
\* failure is returned after the header was written: offsets 0..4 hold the
\* ports, 4..6 the length (for serialize_n, 8 + payload-length + n modulo
\* 65536), 6..8 the model's checksum field, the payload follows, and only
\* the bytes at offset 8 + payload-length or beyond are as before the call.
C10_OnlyTooSmallLeavesBufferUntouched ==
    (IsSerialize /\ out.kind \in {"too_small", "mismatch"}) =>
        /\ Len(buf) = Len(pre)
        /\ out.kind = "too_small" => buf = pre
        /\ Len(pre) < 8 => out.kind = "too_small"
        /\ out.kind = "mismatch" =>
              /\ ~SameFamily
              /\ SubSeq(buf, 1, 4) = SubSeq(HeaderBytes(hdr.layer), 1, 4)
              /\ buf[5] * 256 + buf[6] =
                     (IF out.op = "serialize" THEN hdr.layer.length
                      ELSE (8 + PayloadLen + out.n) % 65536)
              /\ buf[7] * 256 + buf[8] = hdr.layer.checksum
              /\ \A i \in 1..PayloadLen : buf[8 + i] = hdr.layer.payload[i]
              /\ \A i \in (9 + PayloadLen)..Len(buf) : buf[i] = pre[i]

C10_Witness ==
    /\ out.op = "serialize" /\ out.kind = "mismatch"
    /\ SubSeq(buf, 1, 8) # SubSeq(pre, 1, 8)
    /\ Len(buf) > 8 /\ buf[Len(buf)] = pre[Len(pre)]

====
